---- MODULE Spec2Model ----
(***************************************************************************)
(* Model of homework.py: the training classes (Training, Running,          *)
(* SportsWalking, Swimming), the InfoMessage dataclass, the TRANING_TYPE   *)
(* table, read_package and main.                                           *)
(*                                                                         *)
(* Numbers.  Python floats are modelled as exact rationals [n, d] in       *)
(* lowest terms with d > 0; every formula keeps the operand order of the   *)
(* source.  Binary rounding error of the floats is abstracted away.        *)
(* Text.  The Cyrillic literals of the source are written transliterated,  *)
(* and the result of str.format is the sequence of its literal pieces and  *)
(* formatted fields, in order.                                             *)
(* Exceptions.  A call is modelled by an outcome record [exc, ret]: exc is *)
(* the exception that leaves the call (NoError when it returns).           *)
(***************************************************************************)
EXTENDS Integers, Sequences, FiniteSets, TLC

\* ---------------------------------------------------------------- bounds
\* longest data list a package carries
MaxLen == 6

\* ------------------------------------------------------------- rationals
Abs(x) == IF x < 0 THEN -x ELSE x

RECURSIVE Gcd(_, _)
Gcd(a, b) == IF b = 0 THEN a ELSE Gcd(b, a % b)

Norm(n, d) ==
    LET g == Gcd(Abs(n), Abs(d))
        s == IF d < 0 THEN -1 ELSE 1
    IN  [n |-> s * (n \div g), d |-> s * (d \div g)]

R(i) == [n |-> i, d |-> 1]
RAdd(a, b) == Norm(a.n * b.d + b.n * a.d, a.d * b.d)
RSub(a, b) == Norm(a.n * b.d - b.n * a.d, a.d * b.d)
RMul(a, b) == Norm(a.n * b.n, a.d * b.d)
\* true division "/"; the caller tests the divisor for zero first
RDiv(a, b) == Norm(a.n * b.d, a.d * b.n)
\* float floor division "//": the floor of the quotient, as a number
RFloorDiv(a, b) == R((a.n * b.d) \div (a.d * b.n))

\* ------------------------------------------------------------ exceptions
NoError == [type |-> "None"]
NoValue == [none |-> TRUE]
Return(v) == [exc |-> NoError, ret |-> v]
Raise(e) == [exc |-> e, ret |-> NoValue]

ZeroDivisionError == [type |-> "ZeroDivisionError"]
NotImplementedError == [type |-> "NotImplementedError"]

\* ------------------------------------------------- class-level constants
M_IN_KM == 1000
MIN_IN_HOUR == 60
VAL_CALORIE_CALC_18 == 18
VAL_CALORIE_CALC_20 == 20
\* 0.035 and 0.029
coeff_calorie_0_035 == Norm(35, 1000)
coeff_calorie_0_029 == Norm(29, 1000)
\* 1.1 and 2
coeff_calorie_1_1 == Norm(11, 10)
coeff_calorie_2 == 2

\* the class attribute LEN_STEP seen through an instance of cls:
\* 0.65 in Training, overridden with 1.38 in Swimming
\* variant: Swimming does not override LEN_STEP
LEN_STEP_NoOverride(cls) == Norm(65, 100)

LEN_STEP(cls) == IF cls = "Swimming" THEN Norm(138, 100) ELSE Norm(65, 100)

\* --------------------------------------------------------- constructors
\* parameters of cls.__init__ after self
Params(cls) ==
    CASE cls = "SportsWalking" -> <<"action", "duration", "weight", "height">>
      [] cls = "Swimming" -> <<"action", "duration", "weight",
                               "length_pool", "count_pool">>
      [] OTHER -> <<"action", "duration", "weight">>

\* the class whose __init__ an instance of cls runs (Running inherits it)
InitOwner(cls) == IF cls = "Running" THEN "Training" ELSE cls

Training_init(cls, a) ==
    [cls |-> cls, action |-> a[1], duration_m |-> a[2], weight_kg |-> a[3]]

SportsWalking_init(cls, a) ==
    Training_init(cls, a) @@ [height_cm |-> a[4]]

Swimming_init(cls, a) ==
    Training_init(cls, a) @@ [length_pool |-> a[4], count_pool |-> a[5]]

\* the TypeError the interpreter raises when the positional arguments do
\* not fit the signature; the counts of "takes ... were given" include self
ArityError(cls, n) ==
    LET p == Params(cls)
    IN  IF n < Len(p)
        THEN [type |-> "TypeError", func |-> InitOwner(cls) \o ".__init__()",
              kind |-> "missing", count |-> Len(p) - n,
              names |-> SubSeq(p, n + 1, Len(p))]
        ELSE [type |-> "TypeError", func |-> InitOwner(cls) \o ".__init__()",
              kind |-> "takes", takes |-> Len(p) + 1, given |-> n + 1]

\* cls(*a)
New(cls, a) ==
    IF Len(a) # Len(Params(cls)) THEN Raise(ArityError(cls, Len(a)))
    ELSE CASE cls = "SportsWalking" -> Return(SportsWalking_init(cls, a))
           [] cls = "Swimming" -> Return(Swimming_init(cls, a))
           [] OTHER -> Return(Training_init(cls, a))

\* ----------------------------------------------------------- get_distance
Training_get_distance(self) ==
    RDiv(RMul(R(self.action), LEN_STEP(self.cls)), R(M_IN_KM))

Swimming_get_distance(self) ==
    RDiv(RMul(R(self.action), LEN_STEP(self.cls)), R(M_IN_KM))

get_distance(self) ==
    IF self.cls = "Swimming" THEN Swimming_get_distance(self)
    ELSE Training_get_distance(self)

\* --------------------------------------------------------- get_mean_speed
Training_get_mean_speed(self) ==
    IF self.duration_m = 0 THEN Raise(ZeroDivisionError)
    ELSE Return(RDiv(get_distance(self), R(self.duration_m)))

Swimming_get_mean_speed(self) ==
    IF self.duration_m = 0 THEN Raise(ZeroDivisionError)
    ELSE Return(RDiv(RDiv(R(self.length_pool * self.count_pool), R(M_IN_KM)),
                     R(self.duration_m)))

\* variant: Swimming does not override the base method
get_mean_speed_NoOverride(self) == Training_get_mean_speed(self)

\* variant: a zero duration yields speed 0 instead of an exception
get_mean_speed_Clamp(self) ==
    IF self.duration_m = 0 THEN Return(R(0))
    ELSE IF self.cls = "Swimming" THEN Swimming_get_mean_speed(self)
    ELSE Training_get_mean_speed(self)

get_mean_speed(self) ==
    IF self.cls = "Swimming" THEN Swimming_get_mean_speed(self)
    ELSE Training_get_mean_speed(self)

\* ----------------------------------------------------- get_spent_calories
Training_get_spent_calories(self) == Raise(NotImplementedError)

\* the body of each get_spent_calories is written over the outcome of its
\* get_mean_speed() call: an exception of that call leaves the method
Running_calories(self, speed) ==
    IF speed.exc # NoError THEN speed
    ELSE Return(RMul(RMul(RDiv(RMul(RSub(RMul(R(VAL_CALORIE_CALC_18),
                                              speed.ret),
                                         R(VAL_CALORIE_CALC_20)),
                                    R(self.weight_kg)),
                               R(M_IN_KM)),
                          R(self.duration_m)),
                     R(MIN_IN_HOUR)))

Running_get_spent_calories(self) ==
    Running_calories(self, get_mean_speed(self))

\* variant: the speed is floor-divided by the height before it is squared
SportsWalking_calories_Prec(self, speed) ==
    IF speed.exc # NoError THEN speed
    ELSE IF self.height_cm = 0 THEN Raise(ZeroDivisionError)
    ELSE Return(RMul(RMul(RAdd(RMul(coeff_calorie_0_035, R(self.weight_kg)),
                               RMul(RMul(RMul(RFloorDiv(speed.ret,
                                                        R(self.height_cm)),
                                              RFloorDiv(speed.ret,
                                                        R(self.height_cm))),
                                         coeff_calorie_0_029),
                                    R(self.weight_kg))),
                          R(self.duration_m)),
                     R(MIN_IN_HOUR)))

SportsWalking_get_spent_calories_Prec(self) ==
    SportsWalking_calories_Prec(self, get_mean_speed(self))

SportsWalking_calories(self, speed) ==
    IF speed.exc # NoError THEN speed
    ELSE IF self.height_cm = 0 THEN Raise(ZeroDivisionError)
    ELSE Return(RMul(RMul(RAdd(RMul(coeff_calorie_0_035, R(self.weight_kg)),
                               RMul(RMul(RFloorDiv(RMul(speed.ret, speed.ret),
                                            R(self.height_cm)),
                                         coeff_calorie_0_029),
                                    R(self.weight_kg))),
                          R(self.duration_m)),
                     R(MIN_IN_HOUR)))

SportsWalking_get_spent_calories(self) ==
    SportsWalking_calories(self, get_mean_speed(self))

Swimming_calories(self, speed) ==
    IF speed.exc # NoError THEN speed
    ELSE Return(RMul(RMul(RAdd(speed.ret, coeff_calorie_1_1),
                          R(coeff_calorie_2)),
                     R(self.weight_kg)))

Swimming_get_spent_calories(self) ==
    Swimming_calories(self, get_mean_speed(self))

get_spent_calories(self) ==
    CASE self.cls = "Running" -> Running_get_spent_calories(self)
      [] self.cls = "SportsWalking" -> SportsWalking_get_spent_calories(self)
      [] self.cls = "Swimming" -> Swimming_get_spent_calories(self)
      [] OTHER -> Training_get_spent_calories(self)

\* ------------------------------------------------------------ InfoMessage
\* "{:.3f}": sign, integer part, point, three digits; the exact value is
\* rounded to the nearest thousandth, a tie to the even one
Fmt3(x) ==
    LET t == Abs(x.n) * 1000
        fl == t \div x.d
        rem == t % x.d
        q == IF 2 * rem > x.d \/ (2 * rem = x.d /\ fl % 2 = 1)
             THEN fl + 1 ELSE fl
        f == q % 1000
    IN  (IF x.n < 0 THEN "-" ELSE "") \o ToString(q \div 1000) \o "."
        \o (IF f < 10 THEN "00" ELSE IF f < 100 THEN "0" ELSE "")
        \o ToString(f)

InfoMessage(training_type, duration, distance, speed, calories) ==
    [training_type |-> training_type, duration |-> duration,
     distance |-> distance, speed |-> speed, calories |-> calories]

\* LINE_OUTPUT.format(...): the literal pieces and the five fields in order
get_message(self) ==
    << "Tip trenirovki: ", self.training_type,
       "; Dlitelnost: ", Fmt3(R(self.duration)),
       " ch.; Distantsiya: ", Fmt3(self.distance),
       " km; Sr. skorost: ", Fmt3(self.speed),
       " km/ch; Potracheno kkal: ", Fmt3(self.calories), "." >>

\* ----------------------------------------------------- show_training_info
\* the InfoMessage(...) call over the outcomes of the get_mean_speed() and
\* get_spent_calories() calls among its arguments, which are evaluated left
\* to right: the first exception leaves the method.  after is the object as
\* the method leaves it; the method assigns nothing.
InfoMessage_call(self, distance, speed, calories, after) ==
    IF speed.exc # NoError
    THEN [exc |-> speed.exc, ret |-> NoValue, self |-> after]
    ELSE IF calories.exc # NoError
    THEN [exc |-> calories.exc, ret |-> NoValue, self |-> after]
    ELSE [exc |-> NoError,
          ret |-> InfoMessage(self.cls, self.duration_m, distance,
                              speed.ret, calories.ret),
          self |-> after]

\* variant: distance and speed passed in the wrong order
InfoMessage_call_Swapped(self, distance, speed, calories, after) ==
    IF speed.exc # NoError
    THEN [exc |-> speed.exc, ret |-> NoValue, self |-> after]
    ELSE IF calories.exc # NoError
    THEN [exc |-> calories.exc, ret |-> NoValue, self |-> after]
    ELSE [exc |-> NoError,
          ret |-> InfoMessage(self.cls, self.duration_m, speed.ret,
                              distance, calories.ret),
          self |-> after]

show_training_info_Swapped(self) ==
    InfoMessage_call_Swapped(self, get_distance(self), get_mean_speed(self),
                             get_spent_calories(self), self)

\* variant: the duration is converted to minutes in place
show_training_info_InPlace(self) ==
    InfoMessage_call(self, get_distance(self), get_mean_speed(self),
                     get_spent_calories(self),
                     [self EXCEPT !.duration_m = @ * MIN_IN_HOUR])

show_training_info(self) ==
    InfoMessage_call(self, get_distance(self), get_mean_speed(self),
                     get_spent_calories(self), self)

\* ------------------------------------------------------------ TRANING_TYPE
\* variant: the RUN entry names the base class
TRANING_TYPE_literal_Base ==
    << <<"SWM", "Swimming">>, <<"RUN", "Training">>, <<"WLK", "SportsWalking">> >>

\* the dict literal, in insertion order
TRANING_TYPE_literal ==
    << <<"SWM", "Swimming">>, <<"RUN", "Running">>, <<"WLK", "SportsWalking">> >>

Keys(table) == [i \in 1..Len(table) |-> table[i][1]]
Has(table, key) == \E i \in 1..Len(table) : table[i][1] = key
Get(table, key) == table[CHOOSE i \in 1..Len(table) : table[i][1] = key][2]

RECURSIVE Join(_, _)
Join(sep, seq) ==
    IF Len(seq) = 0 THEN ""
    ELSE IF Len(seq) = 1 THEN seq[1]
    ELSE seq[1] \o sep \o Join(sep, Tail(seq))

\* ------------------------------------------------------------ read_package
ValueError(table, workout_type) ==
    [type |-> "ValueError",
     args |-> << "Ne vernyi tip trenirovki: ", workout_type,
                 ". Dopustimye znacheniya: ", Join(", ", Keys(table)), " " >>]

ArityPrint == "Chislo parametrov klassa zadano ne verno "

\* variant: an unknown tag falls back to Running
read_package_Fallback(table, workout_type, data) ==
    LET cls == IF Has(table, workout_type) THEN Get(table, workout_type)
               ELSE "Running"
        try == New(cls, data)
        last == New(cls, data)
    IN  [exc |-> last.exc, ret |-> last.ret,
         stdout |-> IF try.exc.type = "TypeError"
                    THEN <<ArityPrint>> ELSE <<>>,
         ctor_calls |-> 2]

\* the outcome of read_package(workout_type, data): the exception or the
\* object, the lines printed and the number of constructor invocations
read_package(table, workout_type, data) ==
    IF ~Has(table, workout_type)
    THEN [exc |-> ValueError(table, workout_type), ret |-> NoValue,
          stdout |-> <<>>, ctor_calls |-> 0]
    ELSE LET cls == Get(table, workout_type)
             try == New(cls, data)
             last == New(cls, data)
         IN  [exc |-> last.exc, ret |-> last.ret,
              stdout |-> IF try.exc.type = "TypeError"
                         THEN <<ArityPrint>> ELSE <<>>,
              ctor_calls |-> 2]

\* -------------------------------------------------------------------- main
\* the outcome of main(training): what show_training_info leaves of the
\* object, the InfoMessage built, the message and the line printed
Printed(shown, text) ==
    [exc |-> NoError, self |-> shown.self, info |-> shown.ret,
     message |-> text, stdout |-> <<text>>]

Reraised(shown) ==
    [exc |-> shown.exc, self |-> shown.self, info |-> NoValue,
     message |-> <<>>, stdout |-> <<>>]

main_print(shown) ==
    IF shown.exc # NoError THEN Reraised(shown)
    ELSE Printed(shown, get_message(shown.ret))

main(training) == main_print(show_training_info(training))

\* ------------------------------------------------------------------ inputs
Tags == {"SWM", "RUN", "WLK", "CYC"}

\* the data lists of the packages the module itself feeds to read_package
SwmData == <<720, 1, 80, 25, 40>>
RunData == <<15000, 1, 75>>
WlkData == <<9000, 1, 75, 180>>
SourceData == {SwmData, RunData, WlkData}

\* other readings a sensor may put at position i
Alt(i) ==
    CASE i = 1 -> {720, 9000, 15000}
      [] i = 2 -> {0, 2}
      [] i = 3 -> {75, 80}
      [] i = 4 -> {25, 180}
      [] OTHER -> {20}

\* l with one of its readings replaced
Vary(l) == UNION {{[l EXCEPT ![i] = v] : v \in Alt(i)} : i \in DOMAIN l}

\* l cut or padded to n values
Resize(l, n) == [i \in 1..n |-> IF i <= Len(l) THEN l[i] ELSE 1]

DataLists ==
    UNION {Vary(l) : l \in SourceData}
    \cup {Resize(SwmData, n) : n \in 0..MaxLen}

\* ------------------------------------------------------------------- state
VARIABLES
    TRANING_TYPE,   \* the module-level table
    workout_type,   \* the tag of the package read last
    data,           \* its data list
    training,       \* the object the caller holds
    origin,         \* "read_package" or "direct": how it was obtained
    info,           \* the InfoMessage main built for it
    message,        \* the message main printed for it
    error,          \* the exception that left the last call
    stdout,         \* the lines the last call printed
    ctor_calls,     \* constructor invocations of the last read_package
    prev            \* the package reported before the current one

vars == << TRANING_TYPE, workout_type, data, training, origin, info, message,
           error, stdout, ctor_calls, prev >>

NoTraining == [cls |-> "None"]
NoInfo == [training_type |-> "None"]
NoMessage == <<>>
NoPrev == [workout_type |-> "", data |-> <<>>, training |-> NoTraining,
           info |-> NoInfo, message |-> NoMessage]

Reported == [workout_type |-> workout_type, data |-> data,
            training |-> training, info |-> info, message |-> message]

Init ==
    /\ TRANING_TYPE = TRANING_TYPE_literal
    /\ workout_type = ""
    /\ data = <<>>
    /\ training = NoTraining
    /\ origin = "none"
    /\ info = NoInfo
    /\ message = NoMessage
    /\ error = NoError
    /\ stdout = <<>>
    /\ ctor_calls = 0
    /\ prev = NoPrev

\* training = read_package(wt, d)
ReadPackage(wt, d) ==
    \E out \in {read_package(TRANING_TYPE, wt, d)} :
        /\ workout_type' = wt
        /\ data' = d
        /\ training' = IF out.exc = NoError THEN out.ret ELSE NoTraining
        /\ origin' = IF out.exc = NoError THEN "read_package" ELSE "none"
        /\ info' = NoInfo
        /\ message' = NoMessage
        /\ error' = out.exc
        /\ stdout' = out.stdout
        /\ ctor_calls' = out.ctor_calls
        /\ prev' = IF message # NoMessage THEN Reported ELSE prev
        /\ UNCHANGED TRANING_TYPE

\* training = Training(*d): the base class instantiated by the caller
DirectTraining(d) ==
    \E out \in {New("Training", d)} :
        /\ workout_type' = ""
        /\ data' = d
        /\ training' = IF out.exc = NoError THEN out.ret ELSE NoTraining
        /\ origin' = IF out.exc = NoError THEN "direct" ELSE "none"
        /\ info' = NoInfo
        /\ message' = NoMessage
        /\ error' = out.exc
        /\ stdout' = <<>>
        /\ ctor_calls' = 0
        /\ prev' = IF message # NoMessage THEN Reported ELSE prev
        /\ UNCHANGED TRANING_TYPE

\* main(training)
Main ==
    /\ training # NoTraining
    /\ \E out \in {main(training)} :
           /\ training' = out.self
           /\ info' = IF out.exc = NoError THEN out.info ELSE info
           /\ message' = IF out.exc = NoError THEN out.message ELSE message
           /\ error' = out.exc
           /\ stdout' = out.stdout
    /\ UNCHANGED << TRANING_TYPE, workout_type, data, origin, ctor_calls,
                    prev >>

Next ==
    \/ \E wt \in Tags, d \in DataLists : ReadPackage(wt, d)
    \/ \E d \in {l \in DataLists : Len(l) = 3} : DirectTraining(d)
    \/ Main

Spec == Init /\ [][Next]_vars

\* ================================================================ claims
\* the disciplines as the specification states them
SpecTags == {"SWM", "RUN", "WLK"}
SpecArity(tag) == CASE tag = "RUN" -> 3 [] tag = "WLK" -> 4 [] OTHER -> 5
SpecVariant(tag) ==
    CASE tag = "RUN" -> "Running" [] tag = "WLK" -> "SportsWalking"
      [] OTHER -> "Swimming"
SpecStride(tag) == IF tag = "SWM" THEN Norm(138, 100) ELSE Norm(65, 100)
Floor(x) == R(x.n \div x.d)

\* a package went through read_package and has the arity of its discipline
Mismatch == workout_type \in SpecTags /\ Len(data) # SpecArity(workout_type)
\* the current object came from read_package and main has reported it
Reported_ok == origin = "read_package" /\ info # NoInfo

\* C1: for a tag outside {SWM, RUN, WLK} and a data list of any length,
\* read_package raises the unrecognized-discipline error, which names the
\* tag and lists the valid tags; no constructor is invoked and no object is
\* returned.
C1_UnknownTagRejected ==
    (workout_type \in Tags \ SpecTags) =>
        /\ error.type = "ValueError"
        /\ error.args[2] = workout_type
        /\ error.args[4] = "SWM, RUN, WLK"
        /\ ctor_calls = 0
        /\ stdout = <<>>
        /\ training = NoTraining

C1_Witness ==
    /\ workout_type = "CYC"
    /\ Len(data) > 5
    /\ error.type = "ValueError"

\* C2 (as claimed): for a recognized tag and a data list whose length is not
\* the arity, read_package raises a parameter-count error that names the
\* discipline and the expected count and returns no object; with the exact
\* arity it returns an object with every field bound.
C2_MismatchNamesDisciplineAndCount ==
    (workout_type \in SpecTags) =>
        IF Len(data) # SpecArity(workout_type)
        THEN /\ training = NoTraining
             /\ error.type = "TypeError"
             /\ error.func = SpecVariant(workout_type) \o ".__init__()"
             /\ \/ (error.kind = "takes"
                    /\ error.takes = SpecArity(workout_type))
                \/ (error.kind = "missing"
                    /\ error.count = SpecArity(workout_type))
        ELSE /\ training # NoTraining
             /\ training.cls = SpecVariant(workout_type)

\* C3: distance() is actionCount * strideLen / 1000, strideLen 0.65 for
\* Running and RaceWalking and 1.38 for Swimming, and two objects of one
\* discipline with the same actionCount have the same distance whatever
\* their other attributes are.
C3_Distance ==
    /\ Reported_ok =>
           info.distance = RDiv(RMul(R(training.action),
                                     SpecStride(workout_type)), R(1000))
    /\ (/\ Reported_ok
        /\ prev.info # NoInfo
        /\ prev.workout_type = workout_type
        /\ prev.training.action = training.action)
       => prev.info.distance = info.distance

C3_Witness ==
    /\ Reported_ok
    /\ workout_type = "SWM"
    /\ prev.workout_type = "SWM"
    /\ prev.training.action = training.action
    /\ prev.training.duration_m # training.duration_m

\* C4: for Running and RaceWalking meanSpeed() is distance() / duration; for
\* Swimming it is poolLength * lapCount / 1000 / duration, the same for two
\* Swimming objects that differ only in actionCount.
C4_MeanSpeed ==
    /\ (Reported_ok /\ workout_type \in {"RUN", "WLK"}) =>
           info.speed = RDiv(info.distance, R(training.duration_m))
    /\ (Reported_ok /\ workout_type = "SWM") =>
           info.speed = RDiv(RDiv(R(training.length_pool * training.count_pool),
                                  R(1000)),
                             R(training.duration_m))
    /\ (/\ Reported_ok
        /\ workout_type = "SWM"
        /\ prev.workout_type = "SWM"
        /\ prev.training = [training EXCEPT !.action = prev.training.action])
       => prev.info.speed = info.speed

C4_Witness ==
    /\ Reported_ok
    /\ workout_type = "SWM"
    /\ prev.workout_type = "SWM"
    /\ prev.training = [training EXCEPT !.action = prev.training.action]
    /\ prev.training.action # training.action

\* the calorie formula of each discipline as the specification writes it
SpecCalories ==
    CASE workout_type = "RUN" ->
           RMul(RMul(RDiv(RMul(RSub(RMul(R(18), info.speed), R(20)),
                               R(training.weight_kg)), R(1000)),
                     R(training.duration_m)), R(60))
      [] workout_type = "WLK" ->
           RMul(RMul(RAdd(RMul(Norm(35, 1000), R(training.weight_kg)),
                          RMul(RMul(Floor(RDiv(RMul(info.speed, info.speed),
                                               R(training.height_cm))),
                                    Norm(29, 1000)),
                               R(training.weight_kg))),
                     R(training.duration_m)), R(60))
      [] OTHER ->
           RMul(RMul(RAdd(info.speed, Norm(11, 10)), R(2)),
                R(training.weight_kg))

C5_Formulas ==
    /\ Reported_ok => info.calories = SpecCalories
    /\ (Reported_ok /\ workout_type = "WLK" /\ data = <<9000, 1, 75, 180>>)
       => info.calories = Norm(1575, 10)
    /\ (Reported_ok /\ workout_type = "SWM" /\ data = <<720, 1, 80, 25, 40>>)
       => info.calories = R(336)

\* C5 (as claimed): caloriesBurned() is the formula of the discipline, and
\* RUN [15000, 1, 75] gives 692.55, WLK [9000, 1, 75, 180] gives 157.5 and
\* SWM [720, 1, 80, 25, 40] gives 336.
C5_AsClaimed ==
    /\ C5_Formulas
    /\ (Reported_ok /\ workout_type = "RUN" /\ data = <<15000, 1, 75>>)
       => info.calories = Norm(69255, 100)

\* C5 (amended): caloriesBurned() is the formula of the discipline (floor
\* division of the squared speed by the height for RaceWalking), and
\* RUN [15000, 1, 75] gives 699.75, WLK [9000, 1, 75, 180] gives 157.5 and
\* SWM [720, 1, 80, 25, 40] gives 336.
C5_Calories ==
    /\ C5_Formulas
    /\ (Reported_ok /\ workout_type = "RUN" /\ data = <<15000, 1, 75>>)
       => info.calories = Norm(69975, 100)

C5_Witness ==
    /\ Reported_ok
    /\ workout_type = "RUN"
    /\ data = <<15000, 1, 75>>
    /\ info.calories = Norm(69975, 100)

\* C6: the report of an object returned by read_package holds, in this
\* order, the name of the variant the tag selects, the duration, distance(),
\* meanSpeed() and caloriesBurned() of that object, and the message presents
\* these five values in the same order.
C6_ReportFields ==
    Reported_ok =>
        /\ info.training_type = SpecVariant(workout_type)
        /\ info.duration = training.duration_m
        /\ info.distance = get_distance(training)
        /\ info.speed = get_mean_speed(training).ret
        /\ info.calories = get_spent_calories(training).ret
        /\ Len(message) = 11
        /\ message[2] = info.training_type
        /\ message[4] = Fmt3(R(info.duration))
        /\ message[6] = Fmt3(info.distance)
        /\ message[8] = Fmt3(info.speed)
        /\ message[10] = Fmt3(info.calories)
        /\ stdout = <<message>>

C6_Witness ==
    /\ Reported_ok
    /\ info.distance # info.speed
    /\ prev.info # NoInfo
    /\ prev.training # training

\* C7: read_package and the report are deterministic and leave the object
\* alone: two packages with the same tag and data give the same message, a
\* further report of one object gives the same InfoMessage and message, and
\* reporting changes neither an attribute of the object nor the table.
C7_Deterministic ==
    /\ []((/\ prev.workout_type = workout_type
           /\ prev.data = data
           /\ prev.message # NoMessage
           /\ message # NoMessage)
          => (prev.message = message /\ prev.training = training))
    /\ [][TRANING_TYPE' = TRANING_TYPE]_vars
    /\ [][Main => training' = training]_vars
    /\ [][(Main /\ info # NoInfo) => (info' = info /\ message' = message)]_vars

C7_Witness ==
    /\ prev.workout_type = workout_type
    /\ prev.data = data
    /\ prev.message # NoMessage
    /\ message # NoMessage

\* C8 (as claimed): on an arity mismatch read_package raises at the first
\* failed construction: it prints nothing and invokes the constructor once.
C8_StopsAtFirstFailure ==
    Mismatch =>
        /\ error # NoError
        /\ stdout = <<>>
        /\ ctor_calls = 1

\* C9: a reading with duration 0 never produces a report: the object is
\* built with the duration as given and the report raises the division
\* error; no InfoMessage and no message exist for it.
C9_ZeroDurationNoReport ==
    (training # NoTraining /\ data[2] = 0) =>
        /\ training.duration_m = 0
        /\ info = NoInfo
        /\ message = NoMessage
        /\ stdout = <<>>
        /\ error \in {NoError, ZeroDivisionError}

C9_Witness ==
    /\ workout_type = "SWM"
    /\ training # NoTraining
    /\ training.duration_m = 0
    /\ error = ZeroDivisionError

\* C10: an object returned by read_package is a Running, SportsWalking or
\* Swimming, never the base class, so its calorie computation and report do
\* not raise the unimplemented-operation error; that error leaves a call
\* only on an object of the base class.
C10_FactoryNeverAbstract ==
    /\ origin = "read_package" =>
           /\ training.cls \in {"Running", "SportsWalking", "Swimming"}
           /\ get_spent_calories(training).exc # NotImplementedError
           /\ error # NotImplementedError
    /\ error = NotImplementedError =>
           (origin = "direct" /\ training.cls = "Training")

C10_Witness ==
    /\ Reported_ok
    /\ workout_type = "RUN"

====
